---- MODULE Spec2Model ----
(***************************************************************************)
(* voipcheck.py: one check cycle of the VoIP adapter monitor.              *)
(*                                                                         *)
(* A text is a sequence of one-character strings.  Python's None is the    *)
(* value NoneVal, a one-element sequence whose element is not a character, *)
(* so it differs from every text.  A cell (td) is a record                 *)
(* [strings, align]: the text nodes below the td in document order and     *)
(* the value of td.get("align").  A row (tr) is the sequence of its tds.   *)
(***************************************************************************)
EXTENDS Naturals, Integers, Sequences, FiniteSets, TLC

VARIABLES
    pc,         \* position in main / get_voice_status / __main__
    rows,       \* soup.find_all("tr") of the fetched markup
    idx,        \* position of the for loop over rows (1-based)
    data,       \* the dict built at lines 177-190, returned to main
    key,        \* the local `key` of get_voice_status (Unbound before its first binding)
    returned,   \* main's `data` is bound: the call at line 255 returned
    driver,     \* the local `driver`: "unbound" or "started"
    quits,      \* number of driver.quit() calls made
    err,        \* the exception caught at line 195 ("none" if none)
    exc,        \* the exception that propagates out of main ("none" if none)
    l,          \* loop variable of the hook loop at line 263
    sent,       \* the HTTP requests issued so far, in order, with their outcome
    exit_code   \* status handed to sys.exit (NoExit while running)

vars == <<pc, rows, idx, data, key, returned, driver, quits, err, exc, l, sent, exit_code>>

----------------------------------------------------------------------------
(* Values *)

NoneVal == <<"None">>
Unbound == <<"Unbound">>
NoExit == -1

EmptyText == <<>>
On == <<"O", "n">>
Off == <<"O", "f", "f">>
Registered == <<"R", "e", "g", "i", "s", "t", "e", "r", "e", "d">>
NotRegisteredText == <<"N", "o", "t", " ">> \o Registered
HookLabel == <<"H", "o", "o", "k", " ", "S", "t", "a", "t", "e", ":">>
RegLabel == <<"R", "e", "g", "i", "s", "t", "r", "a", "t", "i", "o", "n", " ",
              "S", "t", "a", "t", "e", ":">>
Digits == <<"0", "1", "2", "3", "4", "5", "6", "7", "8", "9">>

\* f"{l}" for a one-digit l
FormatInt(n) == <<Digits[n + 1]>>

\* f"Line {l} Status"
LineKey(n) == <<"L", "i", "n", "e", " ">> \o FormatInt(n)
                 \o <<" ", "S", "t", "a", "t", "u", "s">>

\* f"Line {l}"
LineName(n) == <<"L", "i", "n", "e", " ">> \o FormatInt(n)

----------------------------------------------------------------------------
(* Text extraction: Tag.get_text(strip=True) *)

IsSpace(c) == c = " "

RECURSIVE LStrip(_)
LStrip(s) == IF s # <<>> /\ IsSpace(Head(s)) THEN LStrip(Tail(s)) ELSE s

RECURSIVE RStrip(_)
RStrip(s) ==
    IF s # <<>> /\ IsSpace(s[Len(s)]) THEN RStrip(SubSeq(s, 1, Len(s) - 1)) ELSE s

\* str.strip()
Strip(s) == RStrip(LStrip(s))

\* every text node stripped, the empty ones dropped, the rest joined by ""
RECURSIVE JoinStripped(_)
JoinStripped(strings) ==
    IF strings = <<>> THEN <<>>
    ELSE Strip(Head(strings)) \o JoinStripped(Tail(strings))

GetText(td) == JoinStripped(td.strings)

----------------------------------------------------------------------------
(* Python dict operations on TLA+ functions *)

EmptyDict == <<>>

\* d[k] = v
SetItem(d, k, v) == [x \in DOMAIN d \cup {k} |-> IF x = k THEN v ELSE d[x]]

----------------------------------------------------------------------------
(* The row loop of get_voice_status, lines 178-190 *)

\* faulty variant: the attribute compared with "Left"
IsLeftCapital(td) == td.align = "Left"

\* td.get("align") == "left"
IsLeft(td) == td.align = "left"

\* faulty variant: a label in the last cell gets the empty string, not None
CellValueEmpty(tds, i) == IF i + 1 <= Len(tds) THEN GetText(tds[i + 1]) ELSE EmptyText

\* tds[i + 1].get_text(strip=True) if i + 1 < len(tds) else None   (i is 1-based here)
CellValue(tds, i) == IF i + 1 <= Len(tds) THEN GetText(tds[i + 1]) ELSE NoneVal

\* the for loop over enumerate(tds), from cell i on, storing into section k
RECURSIVE StoreCells(_, _, _, _)
StoreCells(d, k, tds, i) ==
    IF i > Len(tds) THEN d
    ELSE IF IsLeft(tds[i])
         THEN StoreCells(SetItem(d, k, SetItem(d[k], GetText(tds[i]), CellValue(tds, i))),
                         k, tds, i + 1)
         ELSE StoreCells(d, k, tds, i + 1)

HasLeft(tds) == \E i \in 1..Len(tds) : IsLeft(tds[i])

\* The exception one iteration of the row loop raises, "none" if it completes.
\* data[key] is evaluated only when a left-aligned cell is met: an unbound key
\* is an UnboundLocalError, a key that is no section of data a KeyError.
RowError(d, k, tds) ==
    IF Len(tds) = 1 \/ ~HasLeft(tds) THEN "none"
    ELSE IF k = Unbound THEN "UnboundLocalError"
    ELSE IF k \notin DOMAIN d THEN "KeyError"
    ELSE "none"

\* `key` after the iteration: the walrus at line 182 binds key to the text of
\* the single cell whether or not that text is empty.
RowKey(k, tds) == IF Len(tds) = 1 THEN GetText(tds[1]) ELSE k

\* `data` after an iteration that completes
RowData(d, k, tds) ==
    IF Len(tds) = 1
    THEN IF GetText(tds[1]) # EmptyText THEN SetItem(d, GetText(tds[1]), EmptyDict) ELSE d
    ELSE IF HasLeft(tds) THEN StoreCells(d, k, tds, 1) ELSE d

----------------------------------------------------------------------------
(* The markup the adapter may serve: the rows BeautifulSoup finds in it *)

MaxRows == 2
MaxCells == 2

Cell(strings, align) == [strings |-> strings, align |-> align]

\* small tables of any shape, of left-aligned cells "A" and " B " and of
\* cells without align attribute, one empty and one with the text "A"
SmallCells ==
    { Cell(<< <<"A">> >>, "left"), Cell(<< <<" ", "B", " ">> >>, "left"),
      Cell(<<>>, "none"), Cell(<< <<"A">> >>, "none") }
SmallRows == UNION { [1..n -> SmallCells] : n \in 0..MaxCells }
SmallPages == UNION { [1..n -> SmallRows] : n \in 0..MaxRows }

\* the status page of the adapter: a header row per line, possibly followed by
\* a spacer row of one empty cell, then one row per attribute; an attribute's
\* row may be absent, its value cell may be absent (the label is the last cell
\* of its row), empty, or hold a text
AttrVariants == {"yes", "no", "empty", "missing", "absent"}

AttrRows(label, v, yes, no) ==
    CASE v = "absent" -> <<>>
      [] v = "missing" -> << <<Cell(<<>>, "right"), Cell(<<label>>, "left")>> >>
      [] v = "empty" -> << <<Cell(<<label>>, "left"), Cell(<<>>, "none")>> >>
      [] v = "yes" -> << <<Cell(<<label>>, "left"), Cell(<< <<" ">>, yes >>, "none")>> >>
      [] v = "no" -> << <<Cell(<<label>>, "left"), Cell(<<no>>, "none")>> >>

LineRows(n, spacer, hv, rv) ==
    << <<Cell(<<LineKey(n)>>, "none")>> >>
        \o (IF spacer THEN << <<Cell(<< <<" ">> >>, "none")>> >> ELSE <<>>)
        \o AttrRows(HookLabel, hv, On, Off)
        \o AttrRows(RegLabel, rv, Registered, NotRegisteredText)

LineVariants(n) ==
    { <<>> } \cup { LineRows(n, sp, v[1], v[2]) :
                       sp \in BOOLEAN, v \in AttrVariants \X AttrVariants }

AdapterPages == { p1 \o p2 : p1 \in LineVariants(1), p2 \in LineVariants(2) }

Pages == SmallPages \cup AdapterPages

----------------------------------------------------------------------------
(* The decision logic of main, lines 257-291 *)

\* data[f"Line {n} Status"][attr] raises no KeyError
HasStatus(d, n, attr) == LineKey(n) \in DOMAIN d /\ attr \in DOMAIN d[LineKey(n)]

\* the lines the logging loop at line 257 visits, and the attributes it reads
LogRange == <<1, 2>>
LogAttrs == {HookLabel, RegLabel}

\* faulty variant: the logging loop left out
StatusErrorNever(d) == "none"

\* the logging loop, lines 257-261: it reads both attributes of both lines
StatusError(d) ==
    IF \A i \in 1..Len(LogRange) : \A attr \in LogAttrs : HasStatus(d, LogRange[i], attr)
    THEN "none" ELSE "KeyError"

\* faulty variant: the hook loop visits the lines in descending order
HookRangeDescending == <<2, 1>>

\* the lines the hook loop at line 263 visits, in order
HookRange == <<1, 2>>

\* data[f"Line {l} Status"]["Hook State:"] == "On"
HookIsOn(d, n) == d[LineKey(n)][HookLabel] = On

\* faulty variant: only the literal "Not Registered" counts as unregistered
IsUnregisteredLiteral(d, n) == d[LineKey(n)][RegLabel] = NotRegisteredText

\* data[f"Line {l} Status"]["Registration State:"] != "Registered"
IsUnregistered(d, n) == d[LineKey(n)][RegLabel] # Registered

\* the list comprehension at lines 270-274, as line numbers
RegRange == <<1, 2>>

RECURSIVE UnregisteredFrom(_, _)
UnregisteredFrom(d, i) ==
    IF i > Len(RegRange) THEN <<>>
    ELSE (IF IsUnregistered(d, RegRange[i]) THEN <<RegRange[i]>> ELSE <<>>)
             \o UnregisteredFrom(d, i + 1)

Unregistered(d) == UnregisteredFrom(d, 1)

\* ", ".join(f"Line {l}" for l in lines)
RECURSIVE JoinLines(_)
JoinLines(lines) ==
    IF lines = <<>> THEN <<>>
    ELSE IF Len(lines) = 1 THEN LineName(Head(lines))
    ELSE LineName(Head(lines)) \o <<",", " ">> \o JoinLines(Tail(lines))

\* f'{", ".join(unregistered)} NOT REGISTERED.'
FailMsg(lines) ==
    JoinLines(lines) \o <<" ", "N", "O", "T", " ", "R", "E", "G", "I", "S", "T", "E", "R",
                          "E", "D", ".">>

\* the three requests: GET of a line's hook_state_ping_url, GET of the
\* registration_state_ping_url, POST of the message to that url + "/fail";
\* ok is whether the request returned and raise_for_status() passed
HookPing(n, ok) == [kind |-> "HookOn", line |-> n, body |-> NoneVal, ok |-> ok]
OkPing(ok) == [kind |-> "RegistrationOk", line |-> 0, body |-> NoneVal, ok |-> ok]
FailPing(msg, ok) == [kind |-> "RegistrationFail", line |-> 0, body |-> msg, ok |-> ok]

\* faulty variant: the response status is never checked
PingRaisesNever(ok) == FALSE

\* requests.get / requests.post or response.raise_for_status() raises
\* (lines 266-267, 278-279, 284-287) exactly when the request did not succeed
PingRaises(ok) == ~ok

\* the statuses the program exits with
OkStatus == 0
\* faulty variant: the failure branch exits like the success branch
FailStatusAsOk == OkStatus
FailStatus == 1
CriticalStatus == 1

----------------------------------------------------------------------------
(* The program *)

Init ==
    /\ pc = "config"
    /\ rows = <<>>
    /\ idx = 1
    /\ data = EmptyDict
    /\ key = Unbound
    /\ returned = FALSE
    /\ driver = "unbound"
    /\ quits = 0
    /\ err = "none"
    /\ exc = "none"
    /\ l = 1
    /\ sent = <<>>
    /\ exit_code = NoExit

\* an exception leaves main
Raise(e) == pc' = "raised" /\ exc' = e

\* an exception is raised inside the try block of get_voice_status
Caught(e) == pc' = "except" /\ err' = e

\* exit_with_status, lines 82-90
ExitWithStatus(status) == pc' = "exited" /\ exit_code' = status

\* main, lines 213-244: the configuration file is found, read and checked
LoadConfig ==
    /\ pc = "config"
    /\ \E outcome \in {"ok", "FileNotFoundError", "ValueError", "KeyError"} :
          IF outcome = "ok" THEN pc' = "password" /\ exc' = exc ELSE Raise(outcome)
    /\ UNCHANGED <<rows, idx, data, key, returned, driver, quits, err, l, sent, exit_code>>

\* main, lines 250-253
GetPassword ==
    /\ pc = "password"
    /\ \E found \in BOOLEAN :
          IF found THEN pc' = "install" /\ exc' = exc ELSE Raise("LookupError")
    /\ UNCHANGED <<rows, idx, data, key, returned, driver, quits, err, l, sent, exit_code>>

\* get_voice_status, lines 112-120
Install ==
    /\ pc = "install"
    /\ \E ok \in BOOLEAN :
          IF ok THEN pc' = "start_driver" /\ err' = err ELSE Caught("Exception")
    /\ UNCHANGED <<rows, idx, data, key, returned, driver, quits, exc, l, sent, exit_code>>

\* get_voice_status, lines 122-124: from here on `driver` is bound
StartDriver ==
    /\ pc = "start_driver"
    /\ \E ok \in BOOLEAN :
          IF ok THEN pc' = "fetch" /\ driver' = "started" /\ err' = err
          ELSE Caught("WebDriverException") /\ driver' = driver
    /\ UNCHANGED <<rows, idx, data, key, returned, quits, exc, l, sent, exit_code>>

\* get_voice_status, lines 126-177: page load, login, waits, markup retrieval,
\* parsing of the markup into rows
Fetch ==
    /\ pc = "fetch"
    /\ \E outcome \in {"ok", "WebDriverException", "ValueError"} :
          IF outcome = "ok"
          THEN /\ \E p \in Pages : rows' = p
               /\ idx' = 1
               /\ data' = EmptyDict
               /\ pc' = "parse"
               /\ err' = err
          ELSE Caught(outcome) /\ UNCHANGED <<rows, idx, data>>
    /\ UNCHANGED <<key, returned, driver, quits, exc, l, sent, exit_code>>

\* get_voice_status, lines 178-190: one iteration of the loop over the rows
ParseRow ==
    /\ pc = "parse"
    /\ idx <= Len(rows)
    /\ LET tds == rows[idx]
           e == RowError(data, key, tds)
       IN IF e = "none"
          THEN /\ key' = RowKey(key, tds)
               /\ data' = RowData(data, key, tds)
               /\ idx' = idx + 1
               /\ UNCHANGED <<pc, err>>
          ELSE Caught(e) /\ UNCHANGED <<key, data, idx>>
    /\ UNCHANGED <<rows, returned, driver, quits, exc, l, sent, exit_code>>

\* get_voice_status, lines 192-193
QuitAndReturn ==
    /\ pc = "parse"
    /\ idx > Len(rows)
    /\ quits' = quits + 1
    /\ \E ok \in BOOLEAN :
          IF ok THEN pc' = "log_status" /\ returned' = TRUE /\ err' = err
          ELSE Caught("WebDriverException") /\ returned' = returned
    /\ UNCHANGED <<rows, idx, data, key, driver, exc, l, sent, exit_code>>

\* get_voice_status, lines 195-198: reading the unbound local `driver` raises
\* UnboundLocalError inside the handler
Except ==
    /\ pc = "except"
    /\ IF driver = "unbound"
       THEN Raise("UnboundLocalError") /\ quits' = quits
       ELSE /\ quits' = quits + 1
            /\ \E ok \in BOOLEAN : Raise(IF ok THEN "LookupError" ELSE "WebDriverException")
    /\ UNCHANGED <<rows, idx, data, key, returned, driver, err, l, sent, exit_code>>

\* main, lines 257-261
LogStatus ==
    /\ pc = "log_status"
    /\ IF StatusError(data) = "none"
       THEN pc' = "hook" /\ l' = 1 /\ exc' = exc
       ELSE Raise(StatusError(data)) /\ l' = l
    /\ UNCHANGED <<rows, idx, data, key, returned, driver, quits, err, sent, exit_code>>

\* the hook loop moves to its next line, or ends
NextHook == IF l < Len(HookRange) THEN pc' = pc /\ l' = l + 1
            ELSE pc' = "registration" /\ l' = l

\* main, lines 263-268: one iteration of the hook loop
HookStep ==
    /\ pc = "hook"
    /\ LET n == HookRange[l]
       IN IF ~HasStatus(data, n, HookLabel)
          THEN Raise("KeyError") /\ UNCHANGED <<l, sent>>
          ELSE IF HookIsOn(data, n)
          THEN \E ok \in BOOLEAN :
                  /\ sent' = Append(sent, HookPing(n, ok))
                  /\ IF PingRaises(ok) THEN Raise("RequestException") /\ l' = l
                     ELSE NextHook /\ exc' = exc
          ELSE NextHook /\ UNCHANGED <<exc, sent>>
    /\ UNCHANGED <<rows, idx, data, key, returned, driver, quits, err, exit_code>>

\* main, lines 270-291
Register ==
    /\ pc = "registration"
    /\ IF \E i \in 1..Len(RegRange) : ~HasStatus(data, RegRange[i], RegLabel)
       THEN Raise("KeyError") /\ UNCHANGED <<sent, exit_code>>
       ELSE LET unregistered == Unregistered(data)
            IN \E ok \in BOOLEAN :
                  /\ sent' = Append(sent, IF unregistered = <<>> THEN OkPing(ok)
                                          ELSE FailPing(FailMsg(unregistered), ok))
                  /\ IF PingRaises(ok) THEN Raise("RequestException") /\ exit_code' = exit_code
                     ELSE /\ ExitWithStatus(IF unregistered = <<>> THEN OkStatus
                                            ELSE FailStatus)
                          /\ exc' = exc
    /\ UNCHANGED <<rows, idx, data, key, returned, driver, quits, err, l>>

\* __main__, lines 294-304
Critical ==
    /\ pc = "raised"
    /\ ExitWithStatus(CriticalStatus)
    /\ UNCHANGED <<rows, idx, data, key, returned, driver, quits, err, exc, l, sent>>

Next ==
    \/ LoadConfig
    \/ GetPassword
    \/ Install
    \/ StartDriver
    \/ Fetch
    \/ ParseRow
    \/ QuitAndReturn
    \/ Except
    \/ LogStatus
    \/ HookStep
    \/ Register
    \/ Critical

Spec == Init /\ [][Next]_vars

----------------------------------------------------------------------------
(* Properties of the notifications and of the exit status *)

Lines == {1, 2}
IsRegistration(e) == e.kind \in {"RegistrationOk", "RegistrationFail"}
RegistrationIndices == { i \in 1..Len(sent) : IsRegistration(sent[i]) }

\* C1: in every cycle a registration request is the last request issued; the
\* hook-on requests come before it, in ascending line order, at most one per
\* line, and only for lines whose hook state in the table is "On".
C1_RegistrationLast ==
    /\ \A i \in 1..Len(sent) : IsRegistration(sent[i]) => i = Len(sent)
    /\ \A i \in 1..Len(sent) : \A j \in 1..Len(sent) :
          (i < j /\ sent[i].kind = "HookOn" /\ sent[j].kind = "HookOn")
              => sent[i].line < sent[j].line
    /\ \A i \in 1..Len(sent) :
          sent[i].kind = "HookOn"
              => /\ sent[i].line \in Lines
                 /\ returned
                 /\ HasStatus(data, sent[i].line, HookLabel)
                 /\ data[LineKey(sent[i].line)][HookLabel] = On

\* both lines off hook and registered: two hook-on requests, then the registration one
C1_Witness ==
    /\ Len(sent) = 3
    /\ sent[1].kind = "HookOn" /\ sent[2].kind = "HookOn"
    /\ IsRegistration(sent[3])

\* the lines whose registration value in the table is not "Registered", ascending
NotRegisteredLines ==
    SelectSeq(<<1, 2>>, LAMBDA n : data[LineKey(n)][RegLabel] # Registered)

\* C2: a cycle in which nothing fails issues exactly one registration request,
\* as its last request; the request is RegistrationOk exactly when both lines
\* have the registration value "Registered", and otherwise RegistrationFail
\* whose message names exactly the other lines, in ascending order.
C2_OneRegistration ==
    /\ Cardinality(RegistrationIndices) <= 1
    /\ (pc = "exited" /\ exc = "none")
          => /\ sent # <<>>
             /\ RegistrationIndices = {Len(sent)}
    /\ \A i \in RegistrationIndices :
          /\ returned
          /\ \A n \in Lines : HasStatus(data, n, RegLabel)
          /\ sent[i].kind = "RegistrationOk" <=> NotRegisteredLines = <<>>
          /\ sent[i].kind = "RegistrationFail" => sent[i].body = FailMsg(NotRegisteredLines)
          /\ sent[i].kind = "RegistrationOk" => sent[i].body = NoneVal

\* line 1 registered, line 2 with a registration value that is empty or None
C2_Witness ==
    /\ pc = "exited" /\ exc = "none"
    /\ sent # <<>>
    /\ sent[Len(sent)].kind = "RegistrationFail"
    /\ sent[Len(sent)].body = FailMsg(<<2>>)
    /\ data[LineKey(2)][RegLabel] \in {EmptyText, NoneVal}

\* line n's hook-on request is due: the table says "On"
HookDue(n) == returned /\ HasStatus(data, n, HookLabel) /\ data[LineKey(n)][HookLabel] = On

\* C3: the exit status is 0 exactly when the cycle ended with a successful
\* RegistrationOk request after every due hook-on request succeeded; every
\* other terminated run exits with status 1.
C3_ExitCode ==
    /\ pc # "exited" => exit_code = NoExit
    /\ pc = "exited" =>
          /\ exit_code \in {0, 1}
          /\ exit_code = 0 <=>
                /\ sent # <<>>
                /\ sent[Len(sent)].kind = "RegistrationOk"
                /\ sent[Len(sent)].ok
                /\ \A n \in Lines :
                      HookDue(n) => \E i \in 1..Len(sent) : sent[i] = HookPing(n, TRUE)

C3_Witness ==
    /\ pc = "exited" /\ exit_code = 0
    /\ HookDue(1) /\ HookDue(2)

\* the table lacks a line section or one of the two labels in it
MissingStatus ==
    \E n \in Lines : \E attr \in {HookLabel, RegLabel} : ~HasStatus(data, n, attr)

\* C6: when the returned table lacks a line section or one of the two labels,
\* the cycle raises KeyError before any request is issued and exits with 1.
C6_MissingData ==
    (returned /\ MissingStatus) =>
        /\ sent = <<>>
        /\ pc \in {"log_status", "raised", "exited"}
        /\ pc \in {"raised", "exited"} => exc = "KeyError"
        /\ pc = "exited" => exit_code = 1

\* line 1 is complete and off hook, the section of line 2 is absent
C6_Witness ==
    /\ returned /\ pc = "exited"
    /\ HookDue(1) /\ HasStatus(data, 1, RegLabel)
    /\ LineKey(2) \notin DOMAIN data

Endpoint(e) == IF e.kind = "HookOn" THEN e.line ELSE 0

\* C7: a failed request is the last request of the cycle, the run then ends
\* with RequestException and status 1, and no endpoint is used twice.
C7_AbortOnFailure ==
    /\ \A i \in 1..Len(sent) :
          ~sent[i].ok =>
              /\ i = Len(sent)
              /\ pc \in {"raised", "exited"}
              /\ exc = "RequestException"
              /\ pc = "exited" => exit_code = 1
    /\ \A i \in 1..Len(sent) : \A j \in 1..Len(sent) :
          i # j => Endpoint(sent[i]) # Endpoint(sent[j])

\* the hook-on request of line 1 failed while line 2 is off hook as well
C7_Witness ==
    /\ pc = "exited"
    /\ sent = <<HookPing(1, FALSE)>>
    /\ HookDue(2)

----------------------------------------------------------------------------
(* Properties of the reduction of the rows to the table *)

\* a section-header row: exactly one cell, whose trimmed text is not empty
HeaderRow(tds) == Len(tds) = 1 /\ GetText(tds[1]) # EmptyText

\* a key/value row: two or more cells
KeyValueRow(tds) == Len(tds) >= 2

LeftCells(tds) == { j \in 1..Len(tds) : tds[j].align = "left" }

\* the row loop ran to its end without raising
ReduceDone == (pc = "parse" /\ idx > Len(rows)) \/ returned

\* row i of r is a key/value row and no header row precedes it
KeyValueBeforeHeader(r, i) ==
    /\ KeyValueRow(r[i])
    /\ \A j \in 1..(i - 1) : ~HeaderRow(r[j])

\* C4 as stated: a key/value row before any section-header row, whatever the
\* alignment of its cells, makes the reduction fail: no table is returned and
\* no request is issued.
C4_AnyKeyValueRow ==
    (\E i \in 1..Len(rows) : KeyValueBeforeHeader(rows, i))
        => ~ReduceDone /\ sent = <<>>

\* C4 amended: a key/value row with at least one left-aligned cell before any
\* section-header row makes the row loop raise at the first such row
\* (UnboundLocalError or KeyError): the loop never gets past it, no table is
\* returned, no request is issued and the exit status is 1.
C4_LeftKeyValueRow ==
    \A i \in 1..Len(rows) :
        (KeyValueBeforeHeader(rows, i) /\ LeftCells(rows[i]) # {})
            => /\ ~ReduceDone
               /\ idx <= i
               /\ sent = <<>>
               /\ pc \in {"parse", "except", "raised", "exited"}
               /\ pc # "parse" => err \in {"UnboundLocalError", "KeyError"}
               /\ pc = "exited" => exit_code = 1

\* an empty single-cell row, then a key/value row with a left-aligned cell:
\* key is bound to "" and data[""] raises KeyError
C4_Witness ==
    /\ pc = "exited"
    /\ Len(rows) = 2
    /\ KeyValueBeforeHeader(rows, 2) /\ LeftCells(rows[2]) # {}
    /\ err = "KeyError"

\* one header row followed by key/value rows
OneHeaderThenPairs(r) ==
    /\ Len(r) >= 1
    /\ HeaderRow(r[1])
    /\ \A i \in 2..Len(r) : KeyValueRow(r[i])

\* the left-aligned label cells of the rows after the first, as <<row, cell>>
LabelCells(r) == UNION { { <<i, j>> : j \in LeftCells(r[i]) } : i \in 2..Len(r) }

\* the value the label cell c of r is to get
ExpectedValue(r, c) ==
    IF c[2] < Len(r[c[1]]) THEN GetText(r[c[1]][c[2] + 1]) ELSE NoneVal

DistinctLabels(r) ==
    \A c1 \in LabelCells(r) : \A c2 \in LabelCells(r) :
        c1 # c2 => GetText(r[c1[1]][c1[2]]) # GetText(r[c2[1]][c2[2]])

\* the table holds one section, named by the header, with one entry per label
\* cell, each with the value of the cell after it or None
OneSectionOfPairs(r, d) ==
    /\ DOMAIN d = {GetText(r[1][1])}
    /\ Cardinality(DOMAIN d[GetText(r[1][1])]) = Cardinality(LabelCells(r))
    /\ \A c \in LabelCells(r) :
          /\ GetText(r[c[1]][c[2]]) \in DOMAIN d[GetText(r[1][1])]
          /\ d[GetText(r[1][1])][GetText(r[c[1]][c[2]])] = ExpectedValue(r, c)

\* C8 as stated: one header row followed by rows with N left-aligned label
\* cells reduces to one section of exactly N entries, each label's value being
\* the trimmed text of the next cell, or None for a label in the last cell.
C8_AnyLabels ==
    OneHeaderThenPairs(rows) =>
        /\ err \notin {"UnboundLocalError", "KeyError"}
        /\ ReduceDone => OneSectionOfPairs(rows, data)

\* C8 amended: the same, for label cells whose trimmed texts are pairwise distinct.
C8_DistinctLabels ==
    (OneHeaderThenPairs(rows) /\ DistinctLabels(rows)) =>
        /\ err \notin {"UnboundLocalError", "KeyError"}
        /\ ReduceDone => OneSectionOfPairs(rows, data)

\* a header and a row of the two labels "A" and " B ": A gets "B", B gets None
C8_Witness ==
    /\ ReduceDone
    /\ OneHeaderThenPairs(rows) /\ DistinctLabels(rows)
    /\ Cardinality(LabelCells(rows)) = 2
    /\ \E c \in LabelCells(rows) : ExpectedValue(rows, c) = NoneVal

\* the loop is about to process row rows[idx]
ParseStep == pc = "parse" /\ idx <= Len(rows)

HeadersBefore(r, i) == { j \in 1..(i - 1) : HeaderRow(r[j]) }

\* the text of the last header row before row i
LastHeader(r, i) ==
    GetText(r[CHOOSE j \in HeadersBefore(r, i) : \A k \in HeadersBefore(r, i) : k <= j][1])

\* C9: the current section key changes only at a section-header row, which
\* sets it and creates or resets its section; every other row leaves the key
\* and the existing sections unchanged, apart from the pairs a key/value row
\* adds, which go to the section of the most recent header row.
C9_SectionKeyFrame ==
    [][ParseStep =>
          LET tds == rows[idx]
          IN IF HeaderRow(tds)
             THEN /\ key' = GetText(tds[1])
                  /\ data' = SetItem(data, GetText(tds[1]), EmptyDict)
             ELSE /\ key' = key
                  /\ (~KeyValueRow(tds) \/ LeftCells(tds) = {}) => data' = data /\ pc' = pc
                  /\ (KeyValueRow(tds) /\ LeftCells(tds) # {} /\ HeadersBefore(rows, idx) # {})
                        => /\ pc' = pc
                           /\ DOMAIN data' = DOMAIN data
                           /\ \A s \in DOMAIN data :
                                 s # LastHeader(rows, idx) => data'[s] = data[s]
                           /\ \A j \in LeftCells(tds) :
                                 GetText(tds[j]) \in DOMAIN data'[LastHeader(rows, idx)]
       ]_vars

----------------------------------------------------------------------------
(* Properties of the error handling of get_voice_status *)

\* C10: whatever step of get_voice_status fails, the caller gets LookupError
\* and nothing else, and a driver that was started has been quit exactly once
\* when the function has exited, with or without error.
C10_LookupErrorQuitOnce ==
    /\ (err # "none" /\ pc \in {"raised", "exited"}) => exc = "LookupError"
    /\ (driver = "started" /\ pc \in {"log_status", "hook", "registration", "raised", "exited"})
          => quits = 1

----------------------------------------------------------------------------
(* Missing and empty values *)

UnknownValue(v) == v \in {EmptyText, NoneVal}

\* the table with "Off" / "Not Registered" in place of every empty or missing
\* hook / registration value
Definite(d) ==
    [s \in DOMAIN d |->
        [a \in DOMAIN d[s] |->
            IF ~UnknownValue(d[s][a]) THEN d[s][a]
            ELSE IF a = HookLabel THEN Off
            ELSE IF a = RegLabel THEN NotRegisteredText
            ELSE d[s][a]]]

\* the requests of a cycle on table d in which no request fails
Intents(d) ==
    SelectSeq([i \in 1..Len(HookRange) |-> HookPing(HookRange[i], TRUE)],
              LAMBDA e : HookIsOn(d, e.line))
        \o << IF Unregistered(d) = <<>> THEN OkPing(TRUE)
              ELSE FailPing(FailMsg(Unregistered(d)), TRUE) >>

\* C5: a line whose hook or registration value is empty or missing is told
\* apart from a line with a definite Off / Not Registered value: the cycle
\* does not issue the very requests it issues for the definite values.
C5_UnknownDistinguished ==
    (/\ pc = "exited" /\ exc = "none"
     /\ \E n \in Lines : \E attr \in {HookLabel, RegLabel} :
           UnknownValue(data[LineKey(n)][attr]))
        => sent # Intents(Definite(data))

====
